---- MODULE Spec2Model ----
(***************************************************************************)
(* Model of the multi-source mention aggregator of Brand-Monitoring:       *)
(* src/src/brand_monitoring/tools/custom_tool.py, search_internet and the  *)
(* adapters it calls.                                                      *)
(*                                                                         *)
(* Text is modelled as a sequence of tokens: a literal piece of an         *)
(* f-string is one token, an interpolated value is one token, and "\n" is  *)
(* a token of its own, so concatenation is \o and str.join is Join.        *)
(* Upstream values (titles, links, error texts) are opaque strings; the    *)
(* string operations the code applies to them (slicing, startswith) are    *)
(* tables over these strings.                                              *)
(*                                                                         *)
(* The second part models the task registry of the HTTP service, src/api.py*)
(* (the handlers of /analyze, /status, /report and /tasks, the background  *)
(* task and the shutdown half of lifespan), as steps of one event loop.    *)
(***************************************************************************)
EXTENDS Integers, Sequences, FiniteSets, TLC

VARIABLES
    env,               \* os.environ: credential name -> value or NULL
    pc,                \* position of the one caller inside search_internet
    query,             \* the argument of the current invocation
    results_sections,  \* local list of search_internet
    twitter_results,   \* locals of search_internet, lines 234-236
    reddit_results,
    linkedin_results,
    resp,              \* what each provider's upstream answered in this invocation
    requests,          \* number of calls sent to each provider in this invocation
    invoked,           \* the providers whose adapter code has run in this invocation
    document,          \* the returned string
    prev,              \* history: one provider's slice of an earlier returned document
    now,               \* api.py: datetime.utcnow(), in ticks
    analysis_tasks,    \* api.py:50, the registry, in insertion order
    tasks,             \* the asyncio tasks created by POST /analyze, in creation order
    waiting,           \* the tasks a GET /report handler is suspended on (line 490)
    saved,             \* the task ids save_task_result was called with
    response,          \* the answer of the last request handled
    app                \* lifespan: "serving" between startup and shutdown

api_vars == << now, analysis_tasks, tasks, waiting, saved, response, app >>

vars == << env, pc, query, results_sections, twitter_results, reddit_results,
           linkedin_results, resp, requests, invoked, document, prev, api_vars >>

----------------------------------------------------------------------------
\* Bounds of the model

MaxItems == 1       \* longest list of results in one upstream response
MaxArticles == 2    \* longest article list in the news-focused specification
MaxLong == 22       \* longest scrape or listing in the long-listing specification

----------------------------------------------------------------------------
\* Values

NULL == "<None>"        \* Python None: an unset variable, a JSON null
MISSING == "<absent>"   \* a key that a JSON object does not have
NL == "\n"
Empty == << >>

Providers == <<"web", "news", "twitter", "reddit", "linkedin", "facebook">>
ProviderSet == {Providers[i] : i \in 1..Len(Providers)}

CredNames == {"SERPER_API_KEY", "NEWSAPI_API_KEY", "REDDIT_CLIENT_ID",
              "REDDIT_CLIENT_SECRET", "BRIGHTDATA_API_KEY"}
EnvValues == {NULL, "key"}
Queries == {"Acme Corp", "Globex"}
Clock == {"2026-01-01 10:00:00", "2026-01-01 10:00:07"}

\* Truthy with the None case forgotten
TruthyNotEmpty(v) == v # ""

\* Python truthiness of an optional string
Truthy(v) == v \notin {NULL, MISSING, ""}

\* os.getenv(name, "default"): an unset variable reads as a value
getenvDefault(name) == IF env[name] = NULL THEN "default" ELSE env[name]

\* os.getenv(name)
getenv(name) == env[name]

NoResp == [kind |-> "none"]

\* HTTP error statuses an endpoint can answer with (raise_for_status raises on each)
HttpErrorStatuses == {426, 429, 500}
StatusText(s) == CASE s = 426 -> "426" [] s = 429 -> "429" [] s = 500 -> "500"

\* exception texts; the long one exceeds 100 characters
ErrTexts == {"connection refused", "LONG-ERROR-TEXT"}
TimeoutText == "Read timed out."
NoneSubscriptText == "'NoneType' object is not subscriptable"
NoneGetText == "'NoneType' object has no attribute 'get'"

\* s[:100] of an exception text
Slice100(s) == IF s = "LONG-ERROR-TEXT" THEN "LONG-ERROR-TEXT[:100]" ELSE s

\* s[:200] of a snippet or description, s[:150] of a title
LongTexts == {"LONG-TEXT"}
Slice200(s) == IF s \in LongTexts THEN "LONG-TEXT[:200]" ELSE s
Slice150(s) == IF s \in LongTexts THEN "LONG-TEXT[:150]" ELSE s

\* link.startswith('http://') or link.startswith('https://')
HttpUrls == {"http://b.example/2"}
HttpsUrls == {"https://a.example/1", "https://www.reddit.com"}
StartsWithHttp(l) == l \in HttpUrls \cup HttpsUrls

\* str(v) inside an f-string
Str(v) == IF v = NULL THEN "None" ELSE v

\* "\n".join(parts)
RECURSIVE Join(_)
Join(parts) ==
    IF Len(parts) = 0 THEN Empty
    ELSE IF Len(parts) = 1 THEN parts[1]
    ELSE parts[1] \o <<NL>> \o Join(Tail(parts))

\* all sequences over S of length at most n
SeqsUpTo(S, n) == UNION {[1..k -> S] : k \in 0..n}

----------------------------------------------------------------------------
\* Program constants

TweetLimit == 15        \* custom_tool.py:45
SubmissionLimit == 8    \* custom_tool.py:92
RateLimited == 429      \* custom_tool.py:160, custom_tool.py:33
UpgradeRequired == 426  \* custom_tool.py:225

\* A loop without its break
TakeAll(s, n) == s

\* The first n elements of a sequence
Take(s, n) == SubSeq(s, 1, IF Len(s) < n THEN Len(s) ELSE n)

\* str(e) of the exception an upstream call ended with
ExcText(r) == IF r.kind = "timeout" THEN TimeoutText ELSE r.text

----------------------------------------------------------------------------
\* enhanced_web_search

\* item.get('link', '') and the like
Get(v, default) == IF v = MISSING THEN default ELSE v

WebLinkOk(item) ==
    LET link == Get(item.link, "")
    IN  Truthy(link) /\ StartsWithHttp(link)

\* snippet[:200] of a None snippet raises TypeError, inside the validated branch
WebItemRaises(item) ==
    IF WebLinkOk(item) /\ Get(item.snippet, "No description available") = NULL
    THEN NoneSubscriptText ELSE ""

WebBlock(platform, item) ==
    << platform, NL,
       "Title:", Str(Get(item.title, "N/A")), NL,
       "Snippet:", Slice200(Get(item.snippet, "No description available")), "...", NL,
       "URL:", Get(item.link, ""), NL, "---" >>

OrganicBlock(item) == WebBlock("Platform: Web Search", item)
WebNewsBlock(item) == WebBlock("Platform: News", item)

WebFailed(text) == << "Warning:", "Web search failed -", Slice100(text), "." >>

WebHttpError(status) ==
    IF status = RateLimited
    THEN << "Warning:", "Search API rate limit reached." >>
    ELSE << "Warning:", "Search API error (Status", StatusText(status), ")." >>

\* lines 131-143: the blocks of the organic results with a valid link
OrganicBlocks(items) ==
    LET kept == SelectSeq(items, WebLinkOk)
    IN  [i \in 1..Len(kept) |-> OrganicBlock(kept[i])]

\* lines 146-157: the blocks of the news results with a valid link
WebNewsBlocks(items) ==
    LET kept == SelectSeq(items, WebLinkOk)
    IN  [i \in 1..Len(kept) |-> WebNewsBlock(kept[i])]

\* The text of the exception the first raising item raises, "" if none does
WebRaise(items) ==
    LET bad == {i \in 1..Len(items) : WebItemRaises(items[i]) # ""}
    IN  IF bad = {} THEN ""
        ELSE WebItemRaises(items[CHOOSE i \in bad : \A j \in bad : i <= j])

enhanced_web_search(q, r) ==
    IF r.kind = "http" THEN WebHttpError(r.status)
    ELSE IF r.kind # "ok" THEN WebFailed(ExcText(r))
    ELSE LET raised == WebRaise(r.organic \o r.news)
             search_results == OrganicBlocks(r.organic) \o WebNewsBlocks(r.news)
         IN  IF raised # "" THEN WebFailed(raised)
             ELSE IF search_results # Empty THEN Join(search_results)
             ELSE << "No web results found for '", q, "'." >>

SerperKeyMissing ==
    << "Warning:", "Serper API key", "not found.", "Skipping", "general web search." >>

----------------------------------------------------------------------------
\* The news block of search_internet

NewsArticleOk(a) ==
    LET title == Get(a.title, "")
        url == Get(a.url, "")
    IN  /\ Truthy(title) /\ title # "[Removed]"
        /\ Truthy(url) /\ StartsWithHttp(url)

\* article.get('source', {}).get(...) of a null source raises AttributeError for
\* every article; description[:200] of a null description raises TypeError for an
\* article that passes the filter
NewsArticleRaises(a) ==
    IF a.source = NULL THEN NoneGetText
    ELSE IF NewsArticleOk(a) /\ Get(a.description, "No description") = NULL
    THEN NoneSubscriptText
    ELSE ""

NewsBlock(a) ==
    << "Platform: News (", Str(Get(a.source, "Unknown")), ")", NL,
       "Title:", a.title, NL,
       "Description:", Slice200(Get(a.description, "No description")), "...", NL,
       "URL:", a.url, NL, "---" >>

NoNews(q) == << "No recent news articles found for '", q, "'." >>

NewsFailed(text) == << "Warning:", "NewsAPI request failed -", Slice100(text), "." >>

NewsHttpError(status) ==
    IF status = UpgradeRequired
    THEN << "Warning:", "NewsAPI requires upgrade for this request." >>
    ELSE << "Warning:", "News search failed (Status", StatusText(status), ")." >>

\* lines 203-218: the blocks of the articles that pass the filter
NewsBlocks(articles) ==
    LET kept == SelectSeq(articles, NewsArticleOk)
    IN  [i \in 1..Len(kept) |-> NewsBlock(kept[i])]

\* The text of the exception the first raising article raises, "" if none does
NewsRaise(articles) ==
    LET bad == {i \in 1..Len(articles) : NewsArticleRaises(articles[i]) # ""}
    IN  IF bad = {} THEN ""
        ELSE NewsArticleRaises(articles[CHOOSE i \in bad : \A j \in bad : i <= j])

news_search(q, r) ==
    IF r.kind = "http" THEN NewsHttpError(r.status)
    ELSE IF r.kind # "ok" THEN NewsFailed(ExcText(r))
    ELSE LET raised == NewsRaise(r.articles)
             news_items == NewsBlocks(r.articles)
         IN  IF raised # "" THEN NewsFailed(raised)
             ELSE IF news_items # Empty THEN Join(news_items)
             ELSE NoNews(q)

NewsKeyMissing ==
    << "Warning:", "NewsAPI key", "not found.", "Skipping", "news search." >>

----------------------------------------------------------------------------
\* scrape_twitter_with_snscrape

TweetBlock(t) ==
    << "Username: @", t.username, NL,
       "Tweet:", Slice200(t.rawContent), "...", NL,
       "URL:", t.url, NL, "---" >>

\* lines 44-47: one block for each of the first TweetLimit items
TweetBlocks(items) ==
    LET kept == Take(items, TweetLimit)
    IN  [i \in 1..Len(kept) |-> TweetBlock(kept[i])]

scrape_twitter_with_snscrape(q, r) ==
    IF r.kind # "ok"
    THEN << "Warning:", "Twitter scraping unavailable -", Slice100(ExcText(r)), ".",
            "This is common due to API restrictions." >>
    ELSE LET tweets == TweetBlocks(r.tweets)
         IN  IF tweets # Empty THEN Join(tweets)
             ELSE << "No recent tweets found for '", q, "'.",
                     "This may be due to API limitations or search restrictions." >>

----------------------------------------------------------------------------
\* scrape_reddit_with_praw

\* The block with the permalink as the listing gives it
RedditBlockBare(s) ==
    << "Platform: Reddit (r/", s.subreddit, ")", NL,
       "Title:", Slice150(s.title), "...", NL,
       "Score:", s.score, "| Comments:", s.num_comments, NL,
       "URL:", s.permalink, NL, "---" >>

RedditBlock(s) ==
    << "Platform: Reddit (r/", s.subreddit, ")", NL,
       "Title:", Slice150(s.title), "...", NL,
       "Score:", s.score, "| Comments:", s.num_comments, NL,
       "URL:", "https://www.reddit.com", s.permalink, NL, "---" >>

\* lines 81-93: one block for each submission until SubmissionLimit are collected
RedditBlocks(items) ==
    LET kept == Take(items, SubmissionLimit)
    IN  [i \in 1..Len(kept) |-> RedditBlock(kept[i])]

RedditCredsMissing ==
    << "Warning:", "Reddit API credentials", "not found.", "Skipping", "Reddit search." >>

\* all([client_id, client_secret])
RedditCredsOk(client_id, client_secret) == Truthy(client_id) /\ Truthy(client_secret)

scrape_reddit_with_praw(q, r) ==
    IF r.kind # "ok"
    THEN << "Warning:", "Reddit search failed -", Slice100(ExcText(r)), "." >>
    ELSE LET submissions == RedditBlocks(r.submissions)
         IN  IF submissions # Empty THEN Join(submissions)
             ELSE << "No recent Reddit posts found for '", q, "'." >>

----------------------------------------------------------------------------
\* scrape_linkedin_with_brightdata

BrightdataKeyMissing ==
    << "Warning:", "Brightdata API key", "not found.", "Skipping", "LinkedIn search." >>

\* The except clauses name Timeout, HTTPError and RequestException; any other
\* exception of the call leaves the function
LinkedInCaught(r) == r.kind \in {"ok", "timeout", "http", "error"}

LinkedInHttpError(status) ==
    IF status = RateLimited
    THEN << "Warning:", "LinkedIn API rate limit reached.", "Try again later." >>
    ELSE << "Warning:", "LinkedIn API error (Status", StatusText(status), ").", "Skipping." >>

\* The adapter with the timeout clause folded into the RequestException clause
scrape_linkedin_one_clause(q, r) ==
    CASE r.kind = "ok" ->
           << "LinkedIn scraping job for '", q, "' started successfully via Brightdata." >>
      [] r.kind = "http" -> LinkedInHttpError(r.status)
      [] r.kind \in {"timeout", "error"} ->
           << "Warning:", "LinkedIn scraping failed -", Slice100(ExcText(r)), ".", "Skipping." >>

scrape_linkedin_with_brightdata(q, r) ==
    CASE r.kind = "ok" ->
           << "LinkedIn scraping job for '", q, "' started successfully via Brightdata." >>
      [] r.kind = "timeout" ->
           << "Warning:", "LinkedIn scraping timed out.", "Service may be slow." >>
      [] r.kind = "http" -> LinkedInHttpError(r.status)
      [] r.kind = "error" ->
           << "Warning:", "LinkedIn scraping failed -", Slice100(r.text), ".", "Skipping." >>

----------------------------------------------------------------------------
\* scrape_facebook

scrape_facebook(q) ==
    << "Info:", "Facebook scraping requires special permissions and is not implemented.",
       "For Facebook monitoring, consider using Facebook's official Graph API with proper business verification." >>

----------------------------------------------------------------------------
\* What the upstream services can answer

Failures == {[kind |-> "timeout"]} \cup {[kind |-> "error", text |-> t] : t \in ErrTexts}
HttpFailures == {[kind |-> "http", status |-> st] : st \in HttpErrorStatuses}

GoodItem == [title |-> "Acme launches", snippet |-> "LONG-TEXT", link |-> "https://a.example/1"]
RelativeItem == [title |-> "Acme careers", snippet |-> "jobs", link |-> "/relative/3"]
WebItems == {GoodItem, RelativeItem}

WebResponses ==
    {[kind |-> "ok", organic |-> o, news |-> n] :
        o \in SeqsUpTo(WebItems, MaxItems), n \in SeqsUpTo({GoodItem}, MaxItems)}
    \cup HttpFailures \cup Failures

GoodArticle == [title |-> "Acme in the news", description |-> "LONG-TEXT",
                url |-> "https://a.example/1", source |-> "Daily"]
RemovedArticle == [title |-> "[Removed]", description |-> "gone",
                   url |-> "https://a.example/1", source |-> "Daily"]
NewsArticles == {GoodArticle, RemovedArticle}

NewsResponses ==
    {[kind |-> "ok", articles |-> a] : a \in SeqsUpTo(NewsArticles, MaxItems)}
    \cup HttpFailures \cup Failures

Tweets == {[username |-> "acme_fan", rawContent |-> "LONG-TEXT", url |-> "https://a.example/1"]}
TwitterResponses ==
    {[kind |-> "ok", tweets |-> t] : t \in SeqsUpTo(Tweets, MaxItems)}
    \cup {[kind |-> "error", text |-> t] : t \in ErrTexts}

Submissions == {[subreddit |-> "acme", title |-> "LONG-TEXT", score |-> "12",
                 num_comments |-> "3", permalink |-> "/r/acme/comments/1/"]}
RedditResponses ==
    {[kind |-> "ok", submissions |-> x] : x \in SeqsUpTo(Submissions, MaxItems)}
    \cup Failures

\* "other" is an exception of the POST that is no requests.RequestException
LinkedInResponses ==
    {[kind |-> "ok"], [kind |-> "other", text |-> "'latin-1' codec can't encode characters"]}
    \cup HttpFailures \cup Failures

----------------------------------------------------------------------------
\* The document

Header(p) ==
    CASE p = "web" -> "--- General Web Search Results ---"
      [] p = "news" -> "--- News Search Results ---"
      [] p = "twitter" -> "--- Twitter Results ---"
      [] p = "reddit" -> "--- Reddit Results ---"
      [] p = "linkedin" -> "--- LinkedIn Results ---"
      [] p = "facebook" -> "--- Facebook Results ---"
SummaryHeader == "--- Search Summary ---"

\* f"--- X ---\n{body}\n"
Section(p, body) == << Header(p), NL >> \o body \o << NL >>
\* f"--- Facebook Results ---\n{facebook_results}"
LastSection(p, body) == << Header(p), NL >> \o body

\* Summary with the time also written into the line that names the query
SummaryStamped(q, timestamp) ==
    << NL, SummaryHeader, NL,
       "Search completed for: '", q, "'", timestamp, NL,
       "Timestamp:", timestamp, NL,
       "Note: Some platforms may have limited results due to API restrictions or company visibility.",
       NL >>

Summary(q, timestamp) ==
    << NL, SummaryHeader, NL,
       "Search completed for: '", q, "'", NL,
       "Timestamp:", timestamp, NL,
       "Note: Some platforms may have limited results due to API restrictions or company visibility.",
       NL >>

NoRequests == [p \in ProviderSet |-> 0]
NoResps == [p \in ProviderSet |-> NoResp]
NoPrev == [provider |-> "none"]

\* The credentials a provider reads
CredsOf(p) ==
    CASE p = "web" -> {"SERPER_API_KEY"}
      [] p = "news" -> {"NEWSAPI_API_KEY"}
      [] p = "reddit" -> {"REDDIT_CLIENT_ID", "REDDIT_CLIENT_SECRET"}
      [] p = "linkedin" -> {"BRIGHTDATA_API_KEY"}
      [] OTHER -> {}

----------------------------------------------------------------------------
\* Reading a document back: the body printed under a provider's header

Positions(doc, token) == {i \in 1..Len(doc) : doc[i] = token}
PosOf(doc, token) == CHOOSE i \in Positions(doc, token) : TRUE

Index(p) == CHOOSE i \in 1..Len(Providers) : Providers[i] = p

\* the headers of a document, in the order they occur
HeadersOf(doc) ==
    LET IsHeader(t) == t \in {Header(p) : p \in ProviderSet} \cup {SummaryHeader}
    IN  SelectSeq(doc, IsHeader)

SectionBody(doc, p) ==
    LET from == PosOf(doc, Header(p)) + 2
        upto == IF p = "facebook" THEN PosOf(doc, SummaryHeader) - 2
                ELSE PosOf(doc, Header(Providers[Index(p) + 1])) - 3
    IN  SubSeq(doc, from, upto)

----------------------------------------------------------------------------
\* The task registry of src/api.py: values

MaxTasks == 2       \* POST /analyze requests accepted in one behaviour
MaxTicks == 2       \* last tick of the clock

\* datetime.utcnow() is read in ticks; strftime('%Y%m%d_%H%M%S') keeps seconds
TicksPerSecond == 2
Stamp(t) == t \div TicksPerSecond

\* os.getpid(): one process serves every request
Pid == 1

\* api.py:224-226
generate_task_id(t) == << "task", Stamp(t), Pid >>

TaskIds == {generate_task_id(t) : t \in 0..(MaxTicks + 1)}

\* request.company_to_search
Companies == Queries

\* The names bound in run_brand_monitoring_analysis when line 274 or 305 runs
AnalysisLocals ==
    {"task_id", "inputs", "start_time", "result", "raw_output", "cleaned", "json_result", "e"}

NameErrorText(name) == << "name '", name, "' is not defined" >>

\* crew().kickoff(inputs) returns a report or raises
KickoffOutcomes == {"returns", "raises"}
KickoffErrorText == << "litellm.RateLimitError" >>

\* api.py:228-315: what the coroutine does for a kickoff outcome, with the start
\* of the elapsed-time computation read from the name given
run_analysis_reading(startName, task_id, kickoff) ==
    IF startName \notin AnalysisLocals
    THEN \* line 274 raises NameError, or the kickoff raised; either is caught at
         \* line 288, and line 305 raises NameError inside the handler
         [raised |-> TRUE, text |-> NameErrorText(startName), saved |-> FALSE]
    ELSE IF kickoff = "returns"
    THEN [raised |-> FALSE, saved |-> TRUE,
          value |-> [task_id |-> task_id, status |-> "completed", error |-> Empty]]
    ELSE [raised |-> FALSE, saved |-> TRUE,
          value |-> [task_id |-> task_id, status |-> "failed", error |-> KickoffErrorText]]

\* lines 274 and 305 read the name start; line 230 binds start_time
run_brand_monitoring_analysis(task_id, kickoff) ==
    run_analysis_reading("start", task_id, kickoff)

\* lines 431-436 and 506-511: the dict stored for a task that ended in an exception
error_result(task_id, text) == [task_id |-> task_id, status |-> "failed", error |-> text]

NoResponse == [op |-> "none"]

\* An entry of the registry: an asyncio task (by its creation number) or a dict
TaskEntry(n) == [type |-> "task", task |-> n]
DictEntry(d) == [type |-> "dict", dict |-> d]

\* task_id in analysis_tasks
Has(reg, id) == \E i \in 1..Len(reg) : reg[i].id = id

\* analysis_tasks[task_id]
EntryOf(reg, id) == reg[CHOOSE i \in 1..Len(reg) : reg[i].id = id].entry

\* analysis_tasks[task_id] = entry: a key keeps its place, a new key goes last
Put(reg, id, entry) ==
    IF Has(reg, id)
    THEN [i \in 1..Len(reg) |-> IF reg[i].id = id THEN [id |-> id, entry |-> entry] ELSE reg[i]]
    ELSE Append(reg, [id |-> id, entry |-> entry])

\* del analysis_tasks[task_id]
Del(reg, id) == SelectSeq(reg, LAMBDA x : x.id # id)

\* task.done()
Done(t) == t.state \in {"done", "cancelled"}

\* The state after lifespan's startup half
ApiInit ==
    /\ now = 0
    /\ analysis_tasks = Empty
    /\ tasks = Empty
    /\ waiting = {}
    /\ saved = {}
    /\ response = NoResponse
    /\ app = "serving"

----------------------------------------------------------------------------
\* The state machine: one caller at a time runs search_internet

Init ==
    /\ env \in [CredNames -> EnvValues]
    /\ pc = "idle"
    /\ query = NULL
    /\ results_sections = Empty
    /\ twitter_results = Empty
    /\ reddit_results = Empty
    /\ linkedin_results = Empty
    /\ resp = NoResps
    /\ requests = NoRequests
    /\ invoked = {}
    /\ document = Empty
    /\ prev = NoPrev
    /\ ApiInit

locals == << twitter_results, reddit_results, linkedin_results >>

\* A credential is set or removed in the environment between two invocations
SetEnv ==
    /\ pc = "idle"
    /\ \E n \in CredNames, v \in EnvValues :
          /\ v # env[n]
          /\ env' = [env EXCEPT ![n] = v]
    /\ UNCHANGED << pc, query, results_sections, locals, resp, requests, invoked,
                    document, prev, api_vars >>

\* search_internet(query) is called
Invoke ==
    /\ pc = "idle"
    /\ \E q \in Queries : query' = q
    /\ pc' = "web"
    /\ results_sections' = Empty
    /\ UNCHANGED << env, locals, resp, requests, invoked, document, prev, api_vars >>

Sent(p) == requests' = [requests EXCEPT ![p] = @ + 1]
Ran(p) == invoked' = invoked \cup {p}

\* lines 180-182 and 186
WebSkip ==
    /\ pc = "web"
    /\ ~Truthy(getenv("SERPER_API_KEY"))
    /\ results_sections' = Append(results_sections, Section("web", SerperKeyMissing))
    /\ Ran("web")
    /\ pc' = "news"
    /\ UNCHANGED << env, query, locals, resp, requests, document, prev, api_vars >>

\* lines 183-184, 116-124: the POST is sent
WebCall ==
    /\ pc = "web"
    /\ Truthy(getenv("SERPER_API_KEY"))
    /\ Sent("web")
    /\ Ran("web")
    /\ pc' = "web_wait"
    /\ UNCHANGED << env, query, results_sections, locals, resp, document, prev, api_vars >>

\* WebRespond with a retry: a failed POST sends the caller back to send it again
WebRespondRetry(answers) ==
    /\ pc = "web_wait"
    /\ \E r \in answers :
          /\ resp' = [resp EXCEPT !["web"] = r]
          /\ IF r.kind = "ok"
             THEN /\ results_sections' =
                        Append(results_sections, Section("web", enhanced_web_search(query, r)))
                  /\ pc' = "news"
             ELSE /\ results_sections' = results_sections
                  /\ pc' = "web"
    /\ UNCHANGED << env, query, locals, requests, invoked, document, prev, api_vars >>

\* lines 125-167 and 186: the POST returns or raises
WebRespond(answers) ==
    /\ pc = "web_wait"
    /\ \E r \in answers :
          /\ resp' = [resp EXCEPT !["web"] = r]
          /\ results_sections' =
                Append(results_sections, Section("web", enhanced_web_search(query, r)))
    /\ pc' = "news"
    /\ UNCHANGED << env, query, locals, requests, invoked, document, prev, api_vars >>

\* lines 188-190 and 232
NewsSkip ==
    /\ pc = "news"
    /\ ~Truthy(getenv("NEWSAPI_API_KEY"))
    /\ results_sections' = Append(results_sections, Section("news", NewsKeyMissing))
    /\ Ran("news")
    /\ pc' = "twitter"
    /\ UNCHANGED << env, query, locals, resp, requests, document, prev, api_vars >>

\* lines 191-198: the GET is sent
NewsCall ==
    /\ pc = "news"
    /\ Truthy(getenv("NEWSAPI_API_KEY"))
    /\ Sent("news")
    /\ Ran("news")
    /\ pc' = "news_wait"
    /\ UNCHANGED << env, query, results_sections, locals, resp, document, prev, api_vars >>

\* NewsRespond with the except clause reusing what the web search left behind
NewsRespondLeaky(answers) ==
    /\ pc = "news_wait"
    /\ \E r \in answers :
          /\ resp' = [resp EXCEPT !["news"] = r]
          /\ results_sections' =
                Append(results_sections,
                       IF r.kind = "error"
                       THEN << Header("news") >> \o Tail(results_sections[1])
                       ELSE Section("news", news_search(query, r)))
    /\ pc' = "twitter"
    /\ UNCHANGED << env, query, locals, requests, invoked, document, prev, api_vars >>

\* lines 199-232: the GET returns or raises
NewsRespond(answers) ==
    /\ pc = "news_wait"
    /\ \E r \in answers :
          /\ resp' = [resp EXCEPT !["news"] = r]
          /\ results_sections' =
                Append(results_sections, Section("news", news_search(query, r)))
    /\ pc' = "twitter"
    /\ UNCHANGED << env, query, locals, requests, invoked, document, prev, api_vars >>

\* lines 234, 41-44: the scrape starts; it reads no credential
TwitterCall ==
    /\ pc = "twitter"
    /\ Sent("twitter")
    /\ Ran("twitter")
    /\ pc' = "twitter_wait"
    /\ UNCHANGED << env, query, results_sections, locals, resp, document, prev, api_vars >>

\* lines 44-56: the scrape yields its items or raises
TwitterRespond(answers) ==
    /\ pc = "twitter_wait"
    /\ \E r \in answers :
          /\ resp' = [resp EXCEPT !["twitter"] = r]
          /\ twitter_results' = scrape_twitter_with_snscrape(query, r)
    /\ pc' = "reddit"
    /\ UNCHANGED << env, query, results_sections, reddit_results, linkedin_results,
                    requests, invoked, document, prev, api_vars >>

\* lines 235, 60-65
RedditSkip ==
    /\ pc = "reddit"
    /\ ~RedditCredsOk(getenv("REDDIT_CLIENT_ID"), getenv("REDDIT_CLIENT_SECRET"))
    /\ reddit_results' = RedditCredsMissing
    /\ Ran("reddit")
    /\ pc' = "linkedin"
    /\ UNCHANGED << env, query, results_sections, twitter_results, linkedin_results,
                    resp, requests, document, prev, api_vars >>

\* lines 67-81: the client is built and the search is sent
RedditCall ==
    /\ pc = "reddit"
    /\ RedditCredsOk(getenv("REDDIT_CLIENT_ID"), getenv("REDDIT_CLIENT_SECRET"))
    /\ Sent("reddit")
    /\ Ran("reddit")
    /\ pc' = "reddit_wait"
    /\ UNCHANGED << env, query, results_sections, locals, resp, document, prev, api_vars >>

\* lines 81-102: the search yields its submissions or raises
RedditRespond(answers) ==
    /\ pc = "reddit_wait"
    /\ \E r \in answers :
          /\ resp' = [resp EXCEPT !["reddit"] = r]
          /\ reddit_results' = scrape_reddit_with_praw(query, r)
    /\ pc' = "linkedin"
    /\ UNCHANGED << env, query, results_sections, twitter_results, linkedin_results,
                    requests, invoked, document, prev, api_vars >>

\* lines 236, 17-19
LinkedInSkip ==
    /\ pc = "linkedin"
    /\ ~Truthy(getenv("BRIGHTDATA_API_KEY"))
    /\ linkedin_results' = BrightdataKeyMissing
    /\ Ran("linkedin")
    /\ pc' = "facebook"
    /\ UNCHANGED << env, query, results_sections, twitter_results, reddit_results,
                    resp, requests, document, prev, api_vars >>

\* lines 21-27: the POST is sent
LinkedInCall ==
    /\ pc = "linkedin"
    /\ Truthy(getenv("BRIGHTDATA_API_KEY"))
    /\ Sent("linkedin")
    /\ Ran("linkedin")
    /\ pc' = "linkedin_wait"
    /\ UNCHANGED << env, query, results_sections, locals, resp, document, prev, api_vars >>

\* lines 28-37: the POST returns or raises; an exception no clause names
\* propagates out of search_internet
LinkedInRespond(answers) ==
    /\ pc = "linkedin_wait"
    /\ \E r \in answers :
          /\ resp' = [resp EXCEPT !["linkedin"] = r]
          /\ IF LinkedInCaught(r)
             THEN /\ linkedin_results' = scrape_linkedin_with_brightdata(query, r)
                  /\ pc' = "facebook"
             ELSE /\ linkedin_results' = linkedin_results
                  /\ pc' = "raised"
    /\ UNCHANGED << env, query, results_sections, twitter_results, reddit_results,
                    requests, invoked, document, prev, api_vars >>

\* SocialSections with Reddit put before Twitter
SocialSectionsSwapped(twitter, reddit, linkedin, facebook) ==
    << Section("reddit", reddit),
       Section("twitter", twitter),
       Section("linkedin", linkedin),
       LastSection("facebook", facebook) >>

\* lines 239-244: the list the four social sections are appended as
SocialSections(twitter, reddit, linkedin, facebook) ==
    << Section("twitter", twitter),
       Section("reddit", reddit),
       Section("linkedin", linkedin),
       LastSection("facebook", facebook) >>

\* Assemble run without waiting for the LinkedIn call to end
AssembleEarly(times) ==
    /\ pc \in {"facebook", "linkedin_wait"}
    /\ \E timestamp \in times :
          LET sections == results_sections \o
                  SocialSections(twitter_results, reddit_results, linkedin_results,
                                 scrape_facebook(query))
          IN  /\ results_sections' = sections
              /\ document' = Join(sections) \o Summary(query, timestamp)
    /\ Ran("facebook")
    /\ pc' = "done"
    /\ UNCHANGED << env, query, locals, resp, requests, prev, api_vars >>

\* lines 237-256: the Facebook placeholder, the four social sections, the join,
\* the summary and the return
Assemble(times) ==
    /\ pc = "facebook"
    /\ \E timestamp \in times :
          LET facebook_results == scrape_facebook(query)
              sections == results_sections \o
                  SocialSections(twitter_results, reddit_results, linkedin_results,
                                 facebook_results)
              combined_results == Join(sections)
          IN  /\ results_sections' = sections
              /\ document' = combined_results \o Summary(query, timestamp)
    /\ Ran("facebook")
    /\ pc' = "done"
    /\ UNCHANGED << env, query, locals, resp, requests, prev, api_vars >>

\* How a provider's call ended in this invocation
OutcomeKind(p) == IF requests[p] = 0 THEN "not called" ELSE resp[p].kind

\* One provider's slice of a returned document, and whether every other provider
\* that calls out was called and succeeded
Slice(p) ==
    [provider |-> p, query |-> query, creds |-> [n \in CredsOf(p) |-> env[n]],
     resp |-> resp[p], body |-> SectionBody(document, p),
     othersOk |-> \A o \in ProviderSet \ {p, "facebook"} : OutcomeKind(o) = "ok"]

\* The caller has the document (or the exception); the locals are gone.  With
\* keep, the history variable takes one provider's slice of one returned document.
Finish(keep) ==
    /\ pc \in {"done", "raised"}
    /\ pc' = "idle"
    /\ query' = NULL
    /\ results_sections' = Empty
    /\ twitter_results' = Empty
    /\ reddit_results' = Empty
    /\ linkedin_results' = Empty
    /\ resp' = NoResps
    /\ requests' = NoRequests
    /\ invoked' = {}
    /\ document' = Empty
    /\ IF keep /\ pc = "done" /\ prev = NoPrev
       THEN \/ prev' = prev
            \/ \E p \in ProviderSet : prev' = Slice(p)
       ELSE prev' = prev
    /\ UNCHANGED << env, api_vars >>

Next ==
    \/ SetEnv
    \/ Invoke
    \/ WebSkip
    \/ WebCall
    \/ WebRespond(WebResponses)
    \/ NewsSkip
    \/ NewsCall
    \/ NewsRespond(NewsResponses)
    \/ TwitterCall
    \/ TwitterRespond(TwitterResponses)
    \/ RedditSkip
    \/ RedditCall
    \/ RedditRespond(RedditResponses)
    \/ LinkedInSkip
    \/ LinkedInCall
    \/ LinkedInRespond(LinkedInResponses)
    \/ Assemble(Clock)
    \/ Finish(FALSE)

Spec == Init /\ [][Next]_vars

\* The same program against upstreams that answer with one outcome of each kind,
\* keeping the history of an earlier invocation
OkEmptyWeb == [kind |-> "ok", organic |-> Empty, news |-> Empty]
CoarseHttp == {[kind |-> "http", status |-> st] : st \in {RateLimited, 500}}
CoarseError == {[kind |-> "error", text |-> "connection refused"]}
CoarseWeb == {OkEmptyWeb} \cup CoarseHttp \cup CoarseError
CoarseNews == {[kind |-> "ok", articles |-> <<GoodArticle>>]} \cup CoarseHttp \cup CoarseError
CoarseTwitter == {[kind |-> "ok", tweets |-> Empty]} \cup CoarseError
CoarseReddit == {[kind |-> "ok", submissions |-> Empty]} \cup CoarseError
CoarseLinkedIn ==
    {[kind |-> "ok"], [kind |-> "timeout"],
     [kind |-> "other", text |-> "'latin-1' codec can't encode characters"]}
    \cup CoarseHttp

OneTime == {"2026-01-01 10:00:00"}

\* The steps of search_internet that return by themselves or wait on a call that
\* carries a timeout
TimedSteps ==
    \/ WebSkip
    \/ WebCall
    \/ WebRespond(CoarseWeb)
    \/ NewsSkip
    \/ NewsCall
    \/ NewsRespond(CoarseNews)
    \/ TwitterCall
    \/ RedditSkip
    \/ RedditCall
    \/ RedditRespond(CoarseReddit)
    \/ LinkedInSkip
    \/ LinkedInCall
    \/ LinkedInRespond(CoarseLinkedIn)
    \/ Assemble(OneTime)

NextPair ==
    \/ SetEnv
    \/ Invoke
    \/ TimedSteps
    \/ TwitterRespond(CoarseTwitter)
    \/ Finish(TRUE)

SpecPair == Init /\ [][NextPair]_vars

NextCoarse ==
    \/ SetEnv
    \/ Invoke
    \/ TimedSteps
    \/ TwitterRespond(CoarseTwitter)
    \/ Finish(FALSE)

\* Every step of the sequential body is taken once it can be; a call that carries
\* a timeout ends within it.  sntwitter's get_items() is given no timeout (line
\* 44), so nothing bounds the wait for it.
FairSpec ==
    /\ Init
    /\ [][NextCoarse]_vars
    /\ WF_vars(TimedSteps)
    /\ WF_vars(Finish(FALSE))

\* The same program with only the news key set, against a news endpoint whose
\* articles have every shape of field: present, null, missing
RichArticles ==
    [title : {"Acme in the news", "[Removed]", ""},
     url : {"https://a.example/1", "/relative/3"},
     description : {"LONG-TEXT", NULL, MISSING},
     source : {"Daily", NULL, MISSING}]

RichNews == {[kind |-> "ok", articles |-> a] : a \in SeqsUpTo(RichArticles, MaxArticles)}

InitNews ==
    /\ Init
    /\ env = [n \in CredNames |-> IF n = "NEWSAPI_API_KEY" THEN "key" ELSE NULL]

NextNews ==
    \/ Invoke
    \/ WebSkip
    \/ NewsCall
    \/ NewsRespond(RichNews)
    \/ TwitterCall
    \/ TwitterRespond(CoarseTwitter)
    \/ RedditSkip
    \/ LinkedInSkip
    \/ Assemble(OneTime)
    \/ Finish(FALSE)

SpecNews == InitNews /\ [][NextNews]_vars

----------------------------------------------------------------------------
\* Properties

IsWarning(body) == Len(body) >= 1 /\ body[1] = "Warning:"

\* "Warning: ... not found. Skipping ..."
IsNotFoundSkip(body) ==
    /\ IsWarning(body)
    /\ \E i \in 2..(Len(body) - 1) : body[i] = "not found." /\ body[i + 1] = "Skipping"

AllAbsent == \A n \in CredNames : env[n] = NULL

SixHeadersThenSummary ==
    [i \in 1..Len(Providers) |-> Header(Providers[i])] \o << SummaryHeader >>

FooterNames(doc, q) ==
    LET k == PosOf(doc, SummaryHeader)
    IN  SubSeq(doc, k + 2, k + 4) = << "Search completed for: '", q, "'" >>

\* C1: search_internet never raises, whatever each provider's call ends with.
C1_NeverRaises == pc # "raised"

\* C2: every returned document holds exactly the six section headers in the order
\* Web, News, Twitter, Reddit, LinkedIn, Facebook, then the summary footer, and
\* the footer names the query of the invocation.
C2_SixSectionsThenFooter ==
    pc = "done" =>
        /\ HeadersOf(document) = SixHeadersThenSummary
        /\ FooterNames(document, query)

\* a document returned with one provider succeeding, one skipped and two failing
C2_Witness ==
    /\ pc = "done"
    /\ resp["web"].kind = "ok" /\ Len(resp["web"].organic) > 0
    /\ env["NEWSAPI_API_KEY"] = NULL
    /\ resp["twitter"].kind = "error"
    /\ resp["linkedin"].kind = "http"

\* C3 as stated: with every credential absent, each of the six section bodies is a
\* "Warning: ... not found. Skipping." message.
C3_AllSixNotFoundWarnings ==
    (pc = "done" /\ AllAbsent) =>
        \A p \in ProviderSet : IsNotFoundSkip(SectionBody(document, p))

\* C3 amended: with every credential absent the call does not raise and the
\* document has the six sections; the Web, News, Reddit and LinkedIn bodies are
\* the "not found. Skipping" Warnings, the Facebook body is the Info placeholder,
\* and the Twitter body, which depends on no credential, is what the scrape gave:
\* a Warning exactly when the scrape failed, and never a "not found" Warning.
C3_AbsentCredentialSections ==
    AllAbsent =>
        /\ pc # "raised"
        /\ pc = "done" =>
              /\ HeadersOf(document) = SixHeadersThenSummary
              /\ \A p \in {"web", "news", "reddit", "linkedin"} :
                    /\ IsNotFoundSkip(SectionBody(document, p))
                    /\ requests[p] = 0
              /\ SectionBody(document, "facebook")[1] = "Info:"
              /\ ~IsNotFoundSkip(SectionBody(document, "twitter"))
              /\ IsWarning(SectionBody(document, "twitter")) <=> resp["twitter"].kind # "ok"

\* a document returned with no credential set and tweets found
C3_Witness ==
    /\ pc = "done"
    /\ AllAbsent
    /\ resp["twitter"].kind = "ok"
    /\ Len(resp["twitter"].tweets) > 0

\* Two messages are instances of one template: they differ at most in the status
SameTemplate(a, b) ==
    /\ Len(a) = Len(b)
    /\ \A i \in 1..Len(a) :
          a[i] # b[i] => {a[i], b[i]} \subseteq {StatusText(st) : st \in HttpErrorStatuses}

\* C4: the body a 429 of the web or news endpoint produces is of another kind
\* than the body any other HTTP error status of that endpoint produces.
C4_RateLimitMessageDistinct ==
    ( /\ pc = "done"
      /\ prev.provider \in {"web", "news"}
      /\ prev.resp.kind = "http"
      /\ prev.resp.status # 429
      /\ resp[prev.provider].kind = "http"
      /\ resp[prev.provider].status = 429 )
    => ~SameTemplate(SectionBody(document, prev.provider), prev.body)

\* An article survives the filter: a non-empty title other than the removed
\* sentinel and a URL starting with http:// or https://
Survives(a) ==
    /\ a.title \notin {"", NULL, MISSING, "[Removed]"}
    /\ a.url \in HttpUrls \cup HttpsUrls

\* C5: for a 2xx news response the News body is no failure message and holds one
\* block for every article that survives the filter, whatever the description and
\* source fields of the articles of the response are.
C5_SurvivorsAppear ==
    (pc = "done" /\ resp["news"].kind = "ok") =>
        LET body == SectionBody(document, "news")
            survivors == SelectSeq(resp["news"].articles, Survives)
        IN  /\ ~IsWarning(body)
            /\ Cardinality(Positions(body, "---")) = Len(survivors)

Callers == {"web", "news", "twitter", "reddit", "linkedin"}
FailureKinds == {"timeout", "http", "error"}

CredsNow(p) == [n \in CredsOf(p) |-> env[n]]

\* C6: the body of a provider's section is the same in two returned documents of
\* invocations with the same query, the same credentials of that provider and the
\* same upstream answer to that provider, whatever the other providers did.
C6_SectionIndependent ==
    ( /\ pc = "done"
      /\ prev.provider # "none"
      /\ query = prev.query
      /\ CredsNow(prev.provider) = prev.creds
      /\ resp[prev.provider] = prev.resp )
    => SectionBody(document, prev.provider) = prev.body

\* the same web answer in an invocation where every other provider succeeded and
\* in one where the news call failed and LinkedIn was skipped
C6_Witness ==
    /\ pc = "done"
    /\ prev.provider = "web"
    /\ prev.othersOk
    /\ query = prev.query
    /\ resp["web"] = prev.resp
    /\ prev.resp.kind = "ok"
    /\ resp["news"].kind = "http"
    /\ OutcomeKind("linkedin") = "not called"

\* C7: every invocation of search_internet ends (with the document, or with the
\* exception of C1), given that a call carrying a timeout ends within it.
C7_EveryInvocationEnds == (pc = "web") ~> (pc \in {"done", "raised"})

\* the provider whose adapter starts at a position, and the position after it
Entry == {"web", "news", "reddit", "linkedin"}
NextEntry(p) ==
    CASE p = "web" -> "news" [] p = "news" -> "twitter"
      [] p = "reddit" -> "linkedin" [] p = "linkedin" -> "facebook"

\* the providers whose adapter has been entered when the caller is at a position
Entered(at) ==
    CASE at \in {"idle", "web"} -> {}
      [] at \in {"web_wait", "news"} -> {"web"}
      [] at \in {"news_wait", "twitter"} -> {"web", "news"}
      [] at \in {"twitter_wait", "reddit"} -> {"web", "news", "twitter"}
      [] at \in {"reddit_wait", "linkedin"} -> {"web", "news", "twitter", "reddit"}
      [] at \in {"linkedin_wait", "facebook", "raised"} -> ProviderSet \ {"facebook"}
      [] at = "done" -> ProviderSet

\* the body an adapter has just produced
Produced(p) ==
    CASE p \in {"web", "news"} ->
           LET sec == results_sections'[Len(results_sections')]
           IN  SubSeq(sec, 3, Len(sec) - 1)
      [] p = "reddit" -> reddit_results'
      [] p = "linkedin" -> linkedin_results'

\* C8: an adapter whose credential is absent in the environment as it is at that
\* moment produces the "not found. Skipping" Warning, sends no request, raises
\* nothing and hands over to the next provider; with the credential present, as
\* set or removed since the last invocation, the request is sent.  Every provider
\* before the caller's position has been entered, so no skip leaves a later one out.
C8_AbsentCredentialSkips ==
    [][ /\ \A p \in Entry :
             (pc = p /\ pc' # p) =>
                 IF \E n \in CredsOf(p) : env[n] = NULL
                 THEN /\ pc' = NextEntry(p)
                      /\ requests' = requests
                      /\ resp' = resp
                      /\ IsNotFoundSkip(Produced(p))
                 ELSE /\ requests'[p] = 1
                      /\ pc' \notin {"raised", NextEntry(p)}
        /\ invoked' = Entered(pc')
      ]_vars

\* Reddit was skipped in an earlier invocation and is called in this one, in
\* which LinkedIn is skipped and Facebook still runs
C8_Witness ==
    /\ pc = "done"
    /\ prev.provider = "reddit"
    /\ \E n \in CredsOf("reddit") : prev.creds[n] = NULL
    /\ IsNotFoundSkip(prev.body)
    /\ requests["reddit"] = 1
    /\ env["BRIGHTDATA_API_KEY"] = NULL
    /\ requests["linkedin"] = 0
    /\ IsNotFoundSkip(SectionBody(document, "linkedin"))
    /\ "facebook" \in invoked

\* C9: within one invocation no provider is sent more than one request, and a
\* provider whose request failed has that failure as its section in the document.
C9_AtMostOneAttempt ==
    /\ \A p \in ProviderSet : requests[p] <= 1
    /\ pc = "done" =>
          \A p \in Callers :
              resp[p].kind \in FailureKinds =>
                  /\ requests[p] = 1
                  /\ IsWarning(SectionBody(document, p))

\* a document returned after four providers failed, each asked once
C9_Witness ==
    /\ pc = "done"
    /\ resp["web"].kind = "timeout"
    /\ resp["news"].kind = "http"
    /\ resp["reddit"].kind = "error"
    /\ resp["linkedin"].kind = "timeout"
    /\ \A p \in Callers : requests[p] = 1

\* C10: a document exists only once all six providers have run and every call
\* sent has ended, and it holds each provider's section exactly once.
C10_DocumentAfterAllSix ==
    document # Empty =>
        /\ pc = "done"
        /\ invoked = ProviderSet
        /\ \A p \in Callers : requests[p] = 1 => resp[p] # NoResp
        /\ Len(results_sections) = Len(Providers)
        /\ \A p \in ProviderSet : Cardinality(Positions(document, Header(p))) = 1

\* a document returned after a skipped web search and a failed LinkedIn call
C10_Witness ==
    /\ document # Empty
    /\ OutcomeKind("web") = "not called"
    /\ resp["linkedin"].kind = "http"
    /\ resp["twitter"].kind = "error"

----------------------------------------------------------------------------
\* Two invocations compared as wholes

\* The inputs and the document of one returned invocation
Whole ==
    [provider |-> "all", query |-> query, creds |-> env, resp |-> resp, body |-> document]

\* Finish, with the history variable taking the whole of one returned invocation
FinishKeepAll ==
    /\ pc \in {"done", "raised"}
    /\ pc' = "idle"
    /\ query' = NULL
    /\ results_sections' = Empty
    /\ twitter_results' = Empty
    /\ reddit_results' = Empty
    /\ linkedin_results' = Empty
    /\ resp' = NoResps
    /\ requests' = NoRequests
    /\ invoked' = {}
    /\ document' = Empty
    /\ IF pc = "done" /\ prev = NoPrev
       THEN prev' \in {prev, Whole}
       ELSE prev' = prev
    /\ UNCHANGED << env, api_vars >>

TinyWeb == {OkEmptyWeb} \cup CoarseError
TinyNews == {[kind |-> "ok", articles |-> <<GoodArticle>>], [kind |-> "http", status |-> 500]}
TinyReddit == {[kind |-> "ok", submissions |-> Empty]}
TinyLinkedIn == {[kind |-> "ok"], [kind |-> "timeout"]}

NextTwice ==
    \/ SetEnv
    \/ Invoke
    \/ WebSkip
    \/ WebCall
    \/ WebRespond(TinyWeb)
    \/ NewsSkip
    \/ NewsCall
    \/ NewsRespond(TinyNews)
    \/ TwitterCall
    \/ TwitterRespond(CoarseTwitter)
    \/ RedditSkip
    \/ RedditCall
    \/ RedditRespond(TinyReddit)
    \/ LinkedInSkip
    \/ LinkedInCall
    \/ LinkedInRespond(TinyLinkedIn)
    \/ Assemble(Clock)
    \/ FinishKeepAll

SpecTwice == Init /\ [][NextTwice]_vars

\* A document with the value of its timestamp field blanked
WithoutTimestamp(doc) ==
    [i \in 1..Len(doc) |-> IF i > 1 /\ doc[i - 1] = "Timestamp:" THEN "<time>" ELSE doc[i]]

\* C11: two invocations with the same query, the same credentials and the same
\* provider answers return documents that are equal once the value of the
\* timestamp field is left out.
C11_SameInputsSameDocument ==
    ( /\ pc = "done"
      /\ prev.provider = "all"
      /\ query = prev.query
      /\ env = prev.creds
      /\ resp = prev.resp )
    => WithoutTimestamp(document) = WithoutTimestamp(prev.body)

\* the same inputs at two different times: two documents that differ
C11_Witness ==
    /\ pc = "done"
    /\ prev.provider = "all"
    /\ query = prev.query
    /\ env = prev.creds
    /\ resp = prev.resp
    /\ resp["news"].kind = "ok"
    /\ resp["linkedin"].kind = "timeout"
    /\ document # prev.body

----------------------------------------------------------------------------
\* The same program with only the Serper key set, against a search endpoint
\* whose results have every shape of link and a present or null snippet

RichItems ==
    [title : {"Acme launches"},
     link : {"https://a.example/1", "http://b.example/2", "/relative/3", "", MISSING},
     snippet : {"LONG-TEXT", NULL}]

RichWeb ==
    {[kind |-> "ok", organic |-> o, news |-> n] :
        o \in SeqsUpTo(RichItems, MaxItems), n \in SeqsUpTo(RichItems, MaxItems)}

InitWeb ==
    /\ Init
    /\ env = [n \in CredNames |-> IF n = "SERPER_API_KEY" THEN "key" ELSE NULL]

NextWeb ==
    \/ Invoke
    \/ WebCall
    \/ WebRespond(RichWeb)
    \/ NewsSkip
    \/ TwitterCall
    \/ TwitterRespond(CoarseTwitter)
    \/ RedditSkip
    \/ LinkedInSkip
    \/ Assemble(OneTime)
    \/ Finish(FALSE)

SpecWeb == InitWeb /\ [][NextWeb]_vars

\* A result has an absolute link: one starting with http:// or https://
Absolute(item) == item.link \in HttpUrls \cup HttpsUrls

\* The tokens that follow "URL:" in a body, in order
UrlsOf(body) ==
    LET at == SelectSeq([i \in 1..Len(body) |-> i],
                        LAMBDA i : i > 1 /\ body[i - 1] = "URL:")
    IN  [k \in 1..Len(at) |-> body[at[k]]]

\* C12: for a 2xx web-search response the Web body shows no result whose link is
\* empty, missing or relative, and shows every result with an absolute link, of
\* the organic list and then of the news list.
C12_AbsoluteLinksOnly ==
    (pc = "done" /\ resp["web"].kind = "ok") =>
        LET body == SectionBody(document, "web")
            shown == SelectSeq(resp["web"].organic \o resp["web"].news, Absolute)
        IN  UrlsOf(body) = [k \in 1..Len(shown) |-> shown[k].link]

\* C13: for a 2xx news response no article titled '[Removed]' is shown in the
\* News body, and when no article survives the filter the body is the
\* no-results message for the query.
C13_RemovedNeverShown ==
    (pc = "done" /\ resp["news"].kind = "ok") =>
        LET body == SectionBody(document, "news")
        IN  /\ \A i \in 1..Len(body) : body[i] # "[Removed]"
            /\ (SelectSeq(resp["news"].articles, Survives) = Empty => body = NoNews(query))

\* C14: in a returned document every "URL:" of the Reddit section is followed by
\* the https:// site origin and then by the permalink of a submission of the
\* listing, one URL line for each block; the permalink alone never follows "URL:".
C14_RedditUrlsAbsolute ==
    (pc = "done" /\ resp["reddit"].kind = "ok") =>
        LET body == SectionBody(document, "reddit")
            permalinks == {resp["reddit"].submissions[k].permalink :
                              k \in 1..Len(resp["reddit"].submissions)}
        IN  /\ Cardinality(Positions(body, "URL:")) = Cardinality(Positions(body, "---"))
            /\ \A i \in Positions(body, "URL:") :
                  /\ i + 2 <= Len(body)
                  /\ body[i + 1] \in HttpsUrls
                  /\ body[i + 1] \notin permalinks
                  /\ body[i + 2] \in permalinks

\* a returned document whose Reddit section shows a submission
C14_Witness ==
    /\ pc = "done"
    /\ resp["reddit"].kind = "ok"
    /\ Positions(SectionBody(document, "reddit"), "URL:") # {}

----------------------------------------------------------------------------
\* The same program with only the Brightdata key set, keeping the history of an
\* earlier invocation

InitLinkedIn ==
    /\ Init
    /\ env = [n \in CredNames |-> IF n = "BRIGHTDATA_API_KEY" THEN "key" ELSE NULL]

NextLinkedIn ==
    \/ Invoke
    \/ WebSkip
    \/ NewsSkip
    \/ TwitterCall
    \/ TwitterRespond(CoarseTwitter)
    \/ RedditSkip
    \/ LinkedInCall
    \/ LinkedInRespond(LinkedInResponses)
    \/ Assemble(OneTime)
    \/ Finish(TRUE)

SpecLinkedIn == InitLinkedIn /\ [][NextLinkedIn]_vars

\* The four failure kinds of the POST
FailureKind(r) ==
    CASE r.kind = "timeout" -> "timeout"
      [] r.kind = "http" /\ r.status = 429 -> "rate limit"
      [] r.kind = "http" /\ r.status # 429 -> "http error"
      [] r.kind = "error" -> "request failure"
      [] OTHER -> "none"

\* The values a failure message interpolates: a status or the text of an exception
Interpolated ==
    {StatusText(st) : st \in HttpErrorStatuses}
    \cup {Slice100(t) : t \in ErrTexts \cup {TimeoutText}}

\* Two messages are the same message up to the interpolated value
SameMessage(a, b) ==
    /\ Len(a) = Len(b)
    /\ \A i \in 1..Len(a) : a[i] # b[i] => {a[i], b[i]} \subseteq Interpolated

\* C15: the LinkedIn bodies of two returned documents whose POSTs failed in
\* different ways (timeout, 429, other HTTP status, other request failure) are
\* different messages; the body after a timeout is not the request-failure
\* message and the body after a 429 is not the HTTP-error message.
C15_FourDistinctMessages ==
    (pc = "done" /\ FailureKind(resp["linkedin"]) # "none") =>
        LET body == SectionBody(document, "linkedin")
        IN  /\ ( /\ prev.provider = "linkedin"
                 /\ FailureKind(prev.resp) # "none"
                 /\ FailureKind(prev.resp) # FailureKind(resp["linkedin"]) )
               => ~SameMessage(body, prev.body)
            /\ resp["linkedin"].kind = "timeout"
               => Positions(body, "LinkedIn scraping failed -") = {}
            /\ FailureKind(resp["linkedin"]) = "rate limit"
               => Positions(body, "LinkedIn API error (Status") = {}

\* a request failure compared with an earlier timeout
C15_Witness ==
    /\ pc = "done"
    /\ prev.provider = "linkedin"
    /\ prev.resp.kind = "timeout"
    /\ resp["linkedin"].kind = "error"

----------------------------------------------------------------------------
\* The same program with only the Reddit credentials set, against a scrape and a
\* listing that yield up to MaxLong items

LongTweets ==
    {[kind |-> "ok", tweets |-> [i \in 1..k |-> CHOOSE t \in Tweets : TRUE]] : k \in 0..MaxLong}

LongSubmissions ==
    {[kind |-> "ok", submissions |-> [i \in 1..k |-> CHOOSE x \in Submissions : TRUE]] :
        k \in 0..MaxLong}

InitLong ==
    /\ Init
    /\ env = [n \in CredNames |->
                 IF n \in {"REDDIT_CLIENT_ID", "REDDIT_CLIENT_SECRET"} THEN "key" ELSE NULL]

NextLong ==
    \/ Invoke
    \/ WebSkip
    \/ NewsSkip
    \/ TwitterCall
    \/ TwitterRespond(LongTweets)
    \/ RedditCall
    \/ RedditRespond(LongSubmissions)
    \/ LinkedInSkip
    \/ Assemble(OneTime)
    \/ Finish(FALSE)

SpecLong == InitLong /\ [][NextLong]_vars

\* lines 44-46: the items the loop takes from get_items(); the item at index
\* TweetLimit is taken and the loop breaks on it
TweetsPulled(items) == IF Len(items) > TweetLimit THEN TweetLimit + 1 ELSE Len(items)

\* lines 81-93: the submissions the loop takes from the listing; the break
\* follows the append of submission SubmissionLimit
SubmissionsPulled(items) == Len(Take(items, SubmissionLimit))

\* C16: whatever the scrape and the listing yield, the Twitter section holds at
\* most 20 tweet blocks and the Reddit section at most 10 submission blocks, and
\* the loops take no more items than that from the upstream.
C16_BlocksBounded ==
    pc = "done" =>
        /\ Cardinality(Positions(SectionBody(document, "twitter"), "---")) <= 20
        /\ Cardinality(Positions(SectionBody(document, "reddit"), "---")) <= 10
        /\ resp["twitter"].kind = "ok" => TweetsPulled(resp["twitter"].tweets) <= 20
        /\ resp["reddit"].kind = "ok" => SubmissionsPulled(resp["reddit"].submissions) <= 10

\* a scrape of more than 20 tweets and a listing of more than 10 submissions
C16_Witness ==
    /\ pc = "done"
    /\ Len(resp["twitter"].tweets) > 20
    /\ Len(resp["reddit"].submissions) > 10
    /\ Cardinality(Positions(SectionBody(document, "twitter"), "---")) = TweetLimit
    /\ Cardinality(Positions(SectionBody(document, "reddit"), "---")) = SubmissionLimit

----------------------------------------------------------------------------
\* The task registry of src/api.py: the handlers, as steps of the event loop.
\* crew().kickoff() is a synchronous call, so a background task runs from its
\* first step to its end without yielding to the loop.

agg_vars == << env, pc, query, results_sections, twitter_results, reddit_results,
               linkedin_results, resp, requests, invoked, document, prev >>

NewTask(id, company) ==
    [id |-> id, company |-> company, state |-> "pending", cancel |-> FALSE,
     outcome |-> "none", value |-> NoResponse, text |-> Empty]

Answer(op, id, status, body) == [op |-> op, id |-> id, status |-> status, body |-> body]

\* time passes
Tick ==
    /\ now < MaxTicks
    /\ now' = now + 1
    /\ UNCHANGED << agg_vars, analysis_tasks, tasks, waiting, saved, response, app >>

\* POST /analyze, lines 354-395
Analyze ==
    /\ app = "serving"
    /\ Len(tasks) < MaxTasks
    /\ \E company \in Companies :
          LET task_id == generate_task_id(now)
          IN  /\ tasks' = Append(tasks, NewTask(task_id, company))
              /\ analysis_tasks' = Put(analysis_tasks, task_id, TaskEntry(Len(tasks) + 1))
              /\ response' = Answer("analyze", task_id, 200, "started")
    /\ UNCHANGED << agg_vars, now, waiting, saved, app >>

\* background_analysis, lines 382-384, with run_brand_monitoring_analysis: the
\* one step of a task, or its cancellation when cancel() came first
RunTask ==
    /\ app = "serving"
    /\ \E n \in 1..Len(tasks) :
          /\ tasks[n].state = "pending"
          /\ IF tasks[n].cancel
             THEN /\ tasks' = [tasks EXCEPT ![n].state = "cancelled"]
                  /\ UNCHANGED << analysis_tasks, saved >>
             ELSE \E kickoff \in KickoffOutcomes :
                     LET r == run_brand_monitoring_analysis(tasks[n].id, kickoff)
                     IN  IF r.raised
                         THEN /\ tasks' = [tasks EXCEPT ![n].state = "done",
                                                        ![n].outcome = "exception",
                                                        ![n].text = r.text]
                              /\ UNCHANGED << analysis_tasks, saved >>
                         ELSE /\ tasks' = [tasks EXCEPT ![n].state = "done",
                                                        ![n].outcome = "result",
                                                        ![n].value = r.value]
                              /\ saved' = saved \cup {tasks[n].id}
                              /\ analysis_tasks' =
                                    Put(analysis_tasks, tasks[n].id, DictEntry(r.value))
    /\ UNCHANGED << agg_vars, now, waiting, response, app >>

\* GET /status/{task_id}, lines 397-438
Status ==
    /\ app = "serving"
    /\ \E task_id \in TaskIds :
          IF ~Has(analysis_tasks, task_id)
          THEN /\ response' = Answer("status", task_id, 404, "not found")
               /\ UNCHANGED << analysis_tasks, saved >>
          ELSE LET e == EntryOf(analysis_tasks, task_id)
               IN  IF e.type = "dict"
                   THEN /\ response' = Answer("status", task_id, 200, e.dict.status)
                        /\ UNCHANGED << analysis_tasks, saved >>
                   ELSE LET task == tasks[e.task]
                        IN  CASE ~Done(task) ->
                                   /\ response' = Answer("status", task_id, 200, "running")
                                   /\ UNCHANGED << analysis_tasks, saved >>
                              [] task.outcome = "result" ->
                                   /\ analysis_tasks' =
                                         Put(analysis_tasks, task_id, DictEntry(task.value))
                                   /\ saved' = saved \cup {task_id}
                                   /\ response' =
                                         Answer("status", task_id, 200, task.value.status)
                              [] task.outcome = "exception" ->
                                   /\ analysis_tasks' =
                                         Put(analysis_tasks, task_id,
                                             DictEntry(error_result(task_id, task.text)))
                                   /\ response' = Answer("status", task_id, 200, "failed")
                                   /\ UNCHANGED saved
                              [] task.state = "cancelled" ->
                                   \* CancelledError is no Exception: it leaves the handler
                                   /\ response' = Answer("status", task_id, 500, "CancelledError")
                                   /\ UNCHANGED << analysis_tasks, saved >>
    /\ UNCHANGED << agg_vars, now, tasks, waiting, app >>

\* GET /report/{task_id}, lines 470-691, up to the wait of line 490
Report ==
    /\ app = "serving"
    /\ \E task_id \in TaskIds :
          IF ~Has(analysis_tasks, task_id)
          THEN /\ response' = Answer("report", task_id, 404, "not found")
               /\ UNCHANGED << analysis_tasks, waiting >>
          ELSE LET e == EntryOf(analysis_tasks, task_id)
               IN  IF e.type = "dict"
                   THEN /\ response' = Answer("report", task_id, 200, e.dict.status)
                        /\ UNCHANGED << analysis_tasks, waiting >>
                   ELSE LET task == tasks[e.task]
                        IN  CASE ~Done(task) ->
                                   /\ waiting' = waiting \cup {<< e.task, task_id >>}
                                   /\ UNCHANGED << analysis_tasks, response >>
                              [] task.outcome = "result" ->
                                   /\ analysis_tasks' =
                                         Put(analysis_tasks, task_id, DictEntry(task.value))
                                   /\ response' =
                                         Answer("report", task_id, 200, task.value.status)
                                   /\ UNCHANGED waiting
                              [] task.outcome = "exception" ->
                                   /\ analysis_tasks' =
                                         Put(analysis_tasks, task_id,
                                             DictEntry(error_result(task_id, task.text)))
                                   /\ response' = Answer("report", task_id, 200, "failed")
                                   /\ UNCHANGED waiting
                              [] task.state = "cancelled" ->
                                   /\ response' = Answer("report", task_id, 500, "CancelledError")
                                   /\ UNCHANGED << analysis_tasks, waiting >>
    /\ UNCHANGED << agg_vars, now, tasks, saved, app >>

\* lines 490-492: wait_for returns what the task ended with; only a result is
\* stored, an exception of the task leaves the handler
ReportResume ==
    /\ app = "serving"
    /\ \E w \in waiting :
          LET task == tasks[w[1]]
              task_id == w[2]
          IN  /\ Done(task)
              /\ waiting' = waiting \ {w}
              /\ IF task.outcome = "result"
                 THEN /\ analysis_tasks' = Put(analysis_tasks, task_id, DictEntry(task.value))
                      /\ response' = Answer("report", task_id, 200, task.value.status)
                 ELSE /\ response' = Answer("report", task_id, 500, task.outcome)
                      /\ UNCHANGED analysis_tasks
    /\ UNCHANGED << agg_vars, now, tasks, saved, app >>

\* lines 490, 493-497: the 300 s of wait_for pass first; wait_for cancels the task
ReportTimeout ==
    /\ app = "serving"
    /\ \E w \in waiting :
          /\ ~Done(tasks[w[1]])
          /\ waiting' = waiting \ {w}
          /\ tasks' = [tasks EXCEPT ![w[1]].cancel = TRUE]
          /\ response' = Answer("report", w[2], 408, "timeout")
    /\ UNCHANGED << agg_vars, now, analysis_tasks, saved, app >>

\* A registry entry is a not-done task: the task gets cancel()
Cancelled(ts, ns) == [n \in 1..Len(ts) |-> IF n \in ns THEN [ts[n] EXCEPT !.cancel = TRUE] ELSE ts[n]]

\* DELETE that removes the entry and leaves a running task alone
DeleteKeepRunning ==
    /\ app = "serving"
    /\ \E task_id \in TaskIds :
          IF ~Has(analysis_tasks, task_id)
          THEN /\ response' = Answer("delete", task_id, 404, "not found")
               /\ UNCHANGED analysis_tasks
          ELSE /\ analysis_tasks' = Del(analysis_tasks, task_id)
               /\ response' = Answer("delete", task_id, 200, "cleared")
    /\ UNCHANGED << agg_vars, now, tasks, waiting, saved, app >>

\* DELETE /tasks/{task_id}, lines 694-724
Delete ==
    /\ app = "serving"
    /\ \E task_id \in TaskIds :
          IF ~Has(analysis_tasks, task_id)
          THEN /\ response' = Answer("delete", task_id, 404, "not found")
               /\ UNCHANGED << analysis_tasks, tasks >>
          ELSE LET e == EntryOf(analysis_tasks, task_id)
               IN  /\ tasks' = IF e.type = "task" /\ ~Done(tasks[e.task])
                               THEN Cancelled(tasks, {e.task})
                               ELSE tasks
                   /\ analysis_tasks' = Del(analysis_tasks, task_id)
                   /\ response' = Answer("delete", task_id, 200,
                                         IF e.type = "dict" THEN "cleared" ELSE "cancelled")
    /\ UNCHANGED << agg_vars, now, waiting, saved, app >>

\* lines 112-118: the entries the shutdown loop reaches before task.done() is
\* called on a dict, which raises AttributeError and ends the loop
Reached(reg) ==
    {i \in 1..Len(reg) : \A j \in 1..i : reg[j].entry.type = "task"}

\* lifespan after the yield, lines 109-118
Shutdown ==
    /\ app = "serving"
    /\ app' = "stopped"
    /\ tasks' = Cancelled(tasks, {analysis_tasks[i].entry.task : i \in
                    {j \in Reached(analysis_tasks) : ~Done(tasks[analysis_tasks[j].entry.task])}})
    /\ UNCHANGED << agg_vars, now, analysis_tasks, waiting, saved, response >>

InitApi ==
    /\ Init
    /\ env = [n \in CredNames |-> "key"]

NextApi ==
    \/ Tick
    \/ Analyze
    \/ RunTask
    \/ Status
    \/ Report
    \/ ReportResume
    \/ ReportTimeout
    \/ Delete
    \/ Shutdown

SpecApi == InitApi /\ [][NextApi]_vars

----------------------------------------------------------------------------
\* Properties of the task registry

\* C17: the id given to an accepted POST /analyze differs from the id of every
\* earlier request, and registering the new task replaces no entry of the
\* registry.
C17_FreshTaskId ==
    [][ Len(tasks') > Len(tasks) =>
          LET task_id == tasks'[Len(tasks')].id
          IN  /\ \A n \in 1..Len(tasks) : tasks[n].id # task_id
              /\ ~Has(analysis_tasks, task_id) ]_vars

\* C18: a background task that has run did not end in an exception: it has the
\* dict for its kickoff outcome ('completed' when the kickoff returned, 'failed'
\* when it raised), save_task_result was called with it, and the task stored it
\* in the registry.
C18_AnalysisNeverRaises ==
    \A n \in 1..Len(tasks) :
        tasks[n].state = "done" =>
            /\ tasks[n].outcome = "result"
            /\ tasks[n].value.status \in {"completed", "failed"}
            /\ tasks[n].id \in saved

\* C19: once the application has shut down, no task of the registry is still
\* running without a cancel() request.
C19_ShutdownCancelsRunning ==
    app = "stopped" =>
        \A i \in 1..Len(analysis_tasks) :
            LET e == analysis_tasks[i].entry
            IN  e.type = "task" => (Done(tasks[e.task]) \/ tasks[e.task].cancel)

\* C20: a step that removes a task id from the registry has cancelled the task
\* if it was still running; a task that got cancel() before its first step never
\* runs; an id that is absent becomes present only by a new POST /analyze that
\* is given that id; and GET /status for an absent id answers 404.
C20_DeletedStaysDeleted ==
    [][ /\ \A id \in TaskIds :
              /\ (Has(analysis_tasks, id) /\ ~Has(analysis_tasks', id)) =>
                    LET e == EntryOf(analysis_tasks, id)
                    IN  e.type = "task" => (Done(tasks[e.task]) \/ tasks'[e.task].cancel)
              /\ (~Has(analysis_tasks, id) /\ Has(analysis_tasks', id)) =>
                    /\ Len(tasks') = Len(tasks) + 1
                    /\ tasks'[Len(tasks')].id = id
              /\ ( /\ ~Has(analysis_tasks, id)
                   /\ response' # response
                   /\ response'.op = "status"
                   /\ response'.id = id ) => response'.status = 404
        /\ \A n \in 1..Len(tasks) :
              (tasks[n].state = "pending" /\ tasks[n].cancel) =>
                  tasks'[n].state \in {"pending", "cancelled"} ]_vars

\* GET /status answers 404 for the id of the one task, which was deleted while
\* running and then ended cancelled
C20_Witness ==
    /\ Len(tasks) = 1
    /\ tasks[1].state = "cancelled"
    /\ ~Has(analysis_tasks, tasks[1].id)
    /\ response = Answer("status", tasks[1].id, 404, "not found")

----------------------------------------------------------------------------
\* GET /tasks

\* lines 446-460: the status list_tasks gives an entry of the registry
ListedStatus(e) ==
    IF e.type = "dict" THEN e.dict.status
    ELSE IF Done(tasks[e.task]) THEN "completed" ELSE "running"

\* lines 406-438: the status get_analysis_status reports for an entry of the
\* registry; for a cancelled task the await raises CancelledError and no status
\* is reported
ReportedStatus(e) ==
    IF e.type = "dict" THEN e.dict.status
    ELSE LET task == tasks[e.task]
         IN  CASE ~Done(task) -> "running"
               [] task.outcome = "result" -> task.value.status
               [] task.outcome = "exception" -> "failed"
               [] task.state = "cancelled" -> "CancelledError"

\* GET /tasks, lines 440-467
List ==
    /\ app = "serving"
    /\ response' = Answer("tasks", "all", 200,
                          [i \in 1..Len(analysis_tasks) |->
                              [task_id |-> analysis_tasks[i].id,
                               status |-> ListedStatus(analysis_tasks[i].entry)]])
    /\ UNCHANGED << agg_vars, now, analysis_tasks, tasks, waiting, saved, app >>

NextTasks ==
    \/ NextApi
    \/ List

SpecTasks == InitApi /\ [][NextTasks]_vars

\* C21: in every state, GET /tasks lists for every id of the registry the status
\* that GET /status reports for it; a task that ended with an exception is not
\* listed as 'completed'.
C21_ListedAsReported ==
    \A i \in 1..Len(analysis_tasks) :
        LET e == analysis_tasks[i].entry
        IN  /\ ListedStatus(e) = ReportedStatus(e)
            /\ (e.type = "task" /\ tasks[e.task].outcome = "exception")
                  => ListedStatus(e) # "completed"

----------------------------------------------------------------------------
\* Startup validation: the process starts with any environment, validates it as
\* the API (lifespan) or as the CLI (run), and the crew then calls search_internet

\* api.py:93
required_env_vars == << "GEMINI_API_KEY", "SERPAPI_API_KEY", "NEWSAPI_API_KEY" >>

\* main.py:13
required_keys == << "GEMINI_API_KEY", "SERPAPI_API_KEY", "NEWSAPI_API_KEY" >>

StartupNames ==
    CredNames \cup {required_env_vars[i] : i \in 1..Len(required_env_vars)}
              \cup {required_keys[i] : i \in 1..Len(required_keys)}

\* api.py:94: the names of the list that os.getenv finds unset or empty
missing_vars(names) == SelectSeq(names, LAMBDA n : ~Truthy(getenv(n)))

InitStartup ==
    /\ env \in [StartupNames -> EnvValues]
    /\ pc = "idle"
    /\ query = NULL
    /\ results_sections = Empty
    /\ twitter_results = Empty
    /\ reddit_results = Empty
    /\ linkedin_results = Empty
    /\ resp = NoResps
    /\ requests = NoRequests
    /\ invoked = {}
    /\ document = Empty
    /\ prev = NoPrev
    /\ now = 0
    /\ analysis_tasks = Empty
    /\ tasks = Empty
    /\ waiting = {}
    /\ saved = {}
    /\ response = NoResponse
    /\ app = "starting"

\* api.py:88-109: lifespan up to the yield; RuntimeError when a required variable
\* is missing or the crew cannot be built
LifespanStartup ==
    /\ app = "starting"
    /\ \E crewBuilt \in BOOLEAN :
          app' = IF missing_vars(required_env_vars) = Empty /\ crewBuilt
                 THEN "serving" ELSE "failed"
    /\ UNCHANGED << agg_vars, now, analysis_tasks, tasks, waiting, saved, response >>

\* main.py:7-19: run() returns at the first required key that is not set, and
\* otherwise builds the crew and kicks it off
run ==
    /\ app = "starting"
    /\ app' = IF missing_vars(required_keys) = Empty THEN "cli" ELSE "failed"
    /\ UNCHANGED << agg_vars, now, analysis_tasks, tasks, waiting, saved, response >>

Validated == app \in {"serving", "cli"}

\* An agent of the crew calls the tool, in a process whose validation passed
ToolCall ==
    /\ Validated
    /\ Invoke

NextStartup ==
    \/ LifespanStartup
    \/ run
    \/ ToolCall
    \/ WebSkip
    \/ WebCall
    \/ WebRespond(TinyWeb)
    \/ NewsCall
    \/ NewsRespond(TinyNews)
    \/ TwitterCall
    \/ TwitterRespond(CoarseTwitter)
    \/ RedditSkip
    \/ RedditCall
    \/ RedditRespond(TinyReddit)
    \/ LinkedInSkip
    \/ LinkedInCall
    \/ LinkedInRespond(TinyLinkedIn)
    \/ Assemble(OneTime)
    \/ Finish(FALSE)

SpecStartup == InitStartup /\ [][NextStartup]_vars

\* C22: in a process whose startup validation passed, the web adapter of every
\* search_internet call finds a web-search key: the Web section is never the
\* 'Serper API key not found' Warning.
C22_ValidatedHasWebKey ==
    (Validated /\ "web" \in invoked) =>
        /\ Truthy(getenv("SERPER_API_KEY"))
        /\ results_sections[1] # Section("web", SerperKeyMissing)
        /\ (pc = "done" => SectionBody(document, "web") # SerperKeyMissing)

====
